---------------------------- MODULE Spec2Model ----------------------------
(***************************************************************************)
(* Model of the taplo plugin for Pants:                                    *)
(*   - toml_sources.py : find_putative_targets (the tailor rule)           *)
(*   - taplo_fmt.py    : partition_pyprojects, taplo_fmt,                  *)
(*                       pyproject_toml_fmt                                *)
(*                                                                         *)
(* Python strings are modelled as tuples of one-character strings, so     *)
(* that iterating a string, splitting a path, substring tests and         *)
(* lexicographic sorting are computed rather than assumed.                 *)
(***************************************************************************)
EXTENDS Integers, Sequences, FiniteSets, TLC

----------------------------------------------------------------------------
(* Bounds of the model *)

\* number of *.toml files that exist in the modelled source tree
NumFiles == 3
\* number of distinct paths a fmt request may name
NumFmtFiles == 3
\* longest list of files in one fmt request
MaxBatch == 2

----------------------------------------------------------------------------
(* Strings *)

\* code-point order of the characters that occur in compared strings
Ascii ==
    <<"*", "-", ".", "/", "0", "1", "2", "3", "4", "5", "6", "7", "8", "9",
      "=", "_", "a", "b", "c", "d", "e", "f", "g", "h", "i", "j", "k", "l",
      "m", "n", "o", "p", "q", "r", "s", "t", "u", "v", "w", "x", "y", "z">>

OrdTable ==
    [c \in {Ascii[i] : i \in 1..Len(Ascii)} |-> CHOOSE i \in 1..Len(Ascii) : Ascii[i] = c]
        @@ <<>>

\* ord(c), up to an order-preserving renumbering
Ord(c) == OrdTable[c]

Min(a, b) == IF a <= b THEN a ELSE b

\* the first position from i on at which two sequences differ or one ends
RECURSIVE FirstDiff(_, _, _)
FirstDiff(s, t, i) ==
    IF i > Len(s) \/ i > Len(t) \/ s[i] # t[i] THEN i ELSE FirstDiff(s, t, i + 1)

\* Python's str < str : lexicographic by code point, a proper prefix is less
StrLess(s, t) ==
    LET i == FirstDiff(s, t, 1)
    IN  IF i > Len(t) THEN FALSE
        ELSE IF i > Len(s) THEN TRUE
        ELSE Ord(s[i]) < Ord(t[i])

\* Python's tuple[str, ...] < tuple[str, ...]
StrTupleLess(a, b) ==
    LET i == FirstDiff(a, b, 1)
    IN  IF i > Len(b) THEN FALSE
        ELSE IF i > Len(a) THEN TRUE
        ELSE StrLess(a[i], b[i])

\* sorted(strs) for a collection of distinct strings given as a set
RECURSIVE SortedStrs(_)
SortedStrs(S) ==
    IF S = {} THEN <<>>
    ELSE LET m == CHOOSE x \in S : \A y \in S \ {x} : StrLess(x, y)
         IN  <<m>> \o SortedStrs(S \ {m})

\* sorted(list) for a list of strings (duplicates kept)
RECURSIVE SortedStrSeq(_)
SortedStrSeq(q) ==
    IF q = <<>> THEN <<>>
    ELSE LET i == CHOOSE k \in 1..Len(q) :
                     \A l \in 1..Len(q) : ~StrLess(q[l], q[k])
         IN  <<q[i]>> \o SortedStrSeq(SubSeq(q, 1, i - 1) \o SubSeq(q, i + 1, Len(q)))

\* iterating a str yields its characters, each a str of length one
IterStr(s) == [i \in 1..Len(s) |-> <<s[i]>>]

\* needle in haystack, for strings
StrContains(needle, haystack) ==
    \E i \in 1..(Len(haystack) - Len(needle) + 1) :
        SubSeq(haystack, i, i + Len(needle) - 1) = needle

Range(q) == {q[i] : i \in 1..Len(q)}

----------------------------------------------------------------------------
(* os.path *)

\* p.rfind("/") + 1
LastSlash(p) ==
    IF \E i \in 1..Len(p) : p[i] = "/"
    THEN CHOOSE i \in 1..Len(p) : p[i] = "/" /\ \A j \in (i + 1)..Len(p) : p[j] # "/"
    ELSE 0

RECURSIVE RStripSlash(_)
RStripSlash(p) ==
    IF p # <<>> /\ p[Len(p)] = "/" THEN RStripSlash(SubSeq(p, 1, Len(p) - 1)) ELSE p

\* posixpath.split : <<head, tail>>
OsPathSplit(p) ==
    LET i    == LastSlash(p)
        head == SubSeq(p, 1, i)
        tail == SubSeq(p, i + 1, Len(p))
    IN  IF head # <<>> /\ \E j \in 1..Len(head) : head[j] # "/"
        THEN <<RStripSlash(head), tail>>
        ELSE <<head, tail>>

OsPathBasename(p) == SubSeq(p, LastSlash(p) + 1, Len(p))

OsPathDirname(p) == OsPathSplit(p)[1]

\* posixpath.join of two components
OsPathJoin(a, b) ==
    IF b # <<>> /\ b[1] = "/" THEN b
    ELSE IF a = <<>> \/ a[Len(a)] = "/" THEN a \o b
    ELSE a \o <<"/">> \o b

----------------------------------------------------------------------------
(* The source tree *)

\* 'a/x.toml'
F_a_x ==
    <<"a", "/", "x", ".", "t", "o", "m", "l">>
\* 'a/y.toml'
F_a_y ==
    <<"a", "/", "y", ".", "t", "o", "m", "l">>
\* 'b/z.toml'
F_b_z ==
    <<"b", "/", "z", ".", "t", "o", "m", "l">>
\* 'x.toml'
F_x ==
    <<"x", ".", "t", "o", "m", "l">>
\* 'b/w.toml'
F_b_w ==
    <<"b", "/", "w", ".", "t", "o", "m", "l">>

FileList == <<F_a_x, F_a_y, F_b_z, F_x, F_b_w>>

\* the *.toml files of the tree
Files == {FileList[i] : i \in 1..Min(NumFiles, Len(FileList))}

\* 'toml_sources'
TOML_SOURCES_ALIAS ==
    <<"t", "o", "m", "l", "_", "s", "o", "u", "r", "c", "e", "s">>
\* '*.toml'
DEFAULT_SOURCES_GLOB ==
    <<"*", ".", "t", "o", "m", "l">>

----------------------------------------------------------------------------
(* State *)

\* the two tailor requests the engine may run side by side
Reqs == {"r1", "r2"}

VARIABLES
    \* ---- tailor (toml_sources.py) ----
    tailor,             \* TomlSetup.tailor, the [toml-setup].tailor option
    all_owned_sources,  \* AllOwnedSources, the engine's snapshot for the session
    toml_on_disk,       \* per request: the files its "*.toml" globs match on disk
    dpc,                \* position of each find_putative_targets invocation
    all_toml_files,     \* per request: what the *.toml glob returned
    unowned_toml_files, \* per request: the part of the set not yet iterated
    visited,            \* per request: the elements iterated so far, in order
    pts,                \* per frame: the list of PutativeTarget built so far
    putative_targets,   \* per request: the PutativeTargets returned
    glob_issued         \* per request: whether Get(Paths, PathGlobs) was issued

dvars == <<tailor, all_owned_sources, toml_on_disk, dpc, all_toml_files,
           unowned_toml_files, visited, pts, putative_targets, glob_issued>>

VARIABLES
    \* ---- fmt (taplo_fmt.py) ----
    taplo_skip,         \* Taplo.skip, the [taplo].skip option
    taplo_args,         \* Taplo.args, the [taplo].args option
    config_discovery,   \* Taplo.config_discovery
    platform,           \* the Platform the engine runs on
    fpc,                \* position of the fmt request
    request_files,      \* PartitionRequest.files
    partitions,         \* the Partitions partition_pyprojects returned
    rule_name,          \* the rule the batch is handed to
    batch_files,        \* Batch.files
    downloaded_exe,     \* DownloadedExternalTool.exe
    tool_digests,       \* <<downloaded_taplo.digest, config_digest.snapshot.digest>>
    process,            \* the Process built, or NoProcess
    process_ran,        \* whether the Process was handed to the engine
    exit_code,          \* the subprocess's exit code
    rewritten,          \* the output files the subprocess changed
    fmt_result,         \* the FmtResult returned, or NoResult
    error               \* the failure that left the rule, or "none"

fvars == <<taplo_skip, taplo_args, config_discovery, platform, fpc, request_files,
           partitions, rule_name, batch_files, downloaded_exe, tool_digests,
           process, process_ran, exit_code, rewritten, fmt_result, error>>

vars == <<dvars, fvars>>

----------------------------------------------------------------------------
(* pants.util.dirutil.group_by_dir, as called at toml_sources.py:114 *)

\* ret[dirname].add(filename) on an insertion-ordered dict, kept as a list of
\* entries [dirname, filenames]
DictAdd(ret, dirname, filename) ==
    IF \E i \in 1..Len(ret) : ret[i].dirname = dirname
    THEN [i \in 1..Len(ret) |->
            IF ret[i].dirname = dirname
            THEN [ret[i] EXCEPT !.filenames = @ \cup {filename}]
            ELSE ret[i]]
    ELSE Append(ret, [dirname |-> dirname, filenames |-> {filename}])

RECURSIVE GroupByDirFrom(_, _)
GroupByDirFrom(paths, ret) ==
    IF paths = <<>> THEN ret
    ELSE LET sp == OsPathSplit(Head(paths))
         IN  GroupByDirFrom(Tail(paths), DictAdd(ret, sp[1], sp[2]))

\* group_by_dir(paths) for an iterable of strings
GroupByDir(paths) == GroupByDirFrom(paths, <<>>)

\* PutativeTarget.for_target_type(TomlSourcesGeneratorTarget, path=..., name=None,
\* triggering_sources=...)
ForTargetType(path, triggering_sources) ==
    [path               |-> path,
     name               |-> OsPathBasename(path),
     type_alias         |-> TOML_SOURCES_ALIAS,
     triggering_sources |-> triggering_sources,
     owned_sources      |-> <<DEFAULT_SOURCES_GLOB>>]

\* the argument handed to group_by_dir: the loop variable, a single str, which
\* group_by_dir iterates character by character
GroupByDirArg(paths) == IterStr(paths)

\* body of the outer loop for one element of unowned_toml_files: the targets
\* appended to pts, in the order of the dict's items
LoopBodyOf(paths) ==
    LET groups == GroupByDir(GroupByDirArg(paths))
    IN  [i \in 1..Len(groups) |->
            ForTargetType(groups[i].dirname, SortedStrs(groups[i].filenames))]

\* LoopBodyOf, tabulated over the files of the tree
LoopBodyTable == [paths \in Files |-> LoopBodyOf(paths)] @@ <<>>

LoopBody(paths) == LoopBodyTable[paths]

\* PutativeTarget is a dataclass(order=True): fields compared in order
PutativeTargetLess(a, b) ==
    \/ StrLess(a.path, b.path)
    \/ /\ a.path = b.path
       /\ \/ StrLess(a.name, b.name)
          \/ /\ a.name = b.name
             /\ \/ StrLess(a.type_alias, b.type_alias)
                \/ /\ a.type_alias = b.type_alias
                   /\ \/ StrTupleLess(a.triggering_sources, b.triggering_sources)
                      \/ /\ a.triggering_sources = b.triggering_sources
                         /\ StrTupleLess(a.owned_sources, b.owned_sources)

\* x put into the sorted list q, behind the elements that are not greater
RECURSIVE InsertTarget(_, _)
InsertTarget(q, x) ==
    IF q = <<>> THEN <<x>>
    ELSE IF PutativeTargetLess(x, q[Len(q)])
         THEN Append(InsertTarget(SubSeq(q, 1, Len(q) - 1), x), q[Len(q)])
         ELSE Append(q, x)

\* sorted(targets): a stable sort
RECURSIVE SortedTargets(_)
SortedTargets(q) ==
    IF q = <<>> THEN <<>>
    ELSE InsertTarget(SortedTargets(SubSeq(q, 1, Len(q) - 1)), q[Len(q)])

\* keep the first occurrence of every element
RECURSIVE Dedup(_)
Dedup(q) ==
    IF q = <<>> THEN <<>>
    ELSE LET front == Dedup(SubSeq(q, 1, Len(q) - 1))
         IN  IF q[Len(q)] \in Range(front) THEN front ELSE Append(front, q[Len(q)])

\* a collection that keeps the order it is given
PutativeTargets_unsorted(targets) == Dedup(targets)

\* PutativeTargets(pts): a DeduplicatedCollection with sort_input = True
PutativeTargets(targets) == Dedup(SortedTargets(targets))

\* every invocation shares one list
Frame_shared(r) == CHOOSE x \in Reqs : TRUE

\* the frame holding the local list `pts` of invocation r
Frame(r) == r

\* the branch is never taken
TailorDisabled_never == FALSE

\* `if not toml_setup.tailor`
TailorDisabled == ~tailor

----------------------------------------------------------------------------
(* find_putative_targets *)

DInit ==
    /\ tailor \in BOOLEAN
    /\ all_owned_sources \in SUBSET Files
    /\ toml_on_disk \in [Reqs -> SUBSET Files]
    /\ visited = [r \in Reqs |-> <<>>]
    /\ dpc = [r \in Reqs |-> "start"]
    /\ all_toml_files = [r \in Reqs |-> {}]
    /\ unowned_toml_files = [r \in Reqs |-> {}]
    /\ pts = [r \in Reqs |-> <<>>]
    /\ putative_targets = [r \in Reqs |-> <<>>]
    /\ glob_issued = [r \in Reqs |-> FALSE]

\* lines 107-108: the option is off, return PutativeTargets()
ReturnDisabled(r) ==
    /\ dpc[r] = "start"
    /\ TailorDisabled
    /\ putative_targets' = [putative_targets EXCEPT ![r] = PutativeTargets(<<>>)]
    /\ dpc' = [dpc EXCEPT ![r] = "done"]
    /\ UNCHANGED <<tailor, all_owned_sources, toml_on_disk, all_toml_files,
                   unowned_toml_files, visited, pts, glob_issued>>
    /\ UNCHANGED fvars

\* lines 109-112: the glob is answered; the set difference is taken; pts = []
GlobAnswered(r) ==
    /\ dpc[r] = "start"
    /\ ~TailorDisabled
    /\ all_toml_files' = [all_toml_files EXCEPT ![r] = toml_on_disk[r]]
    /\ unowned_toml_files' =
          [unowned_toml_files EXCEPT ![r] = toml_on_disk[r] \ all_owned_sources]
    /\ glob_issued' = [glob_issued EXCEPT ![r] = TRUE]
    /\ pts' = [pts EXCEPT ![Frame(r)] = <<>>]
    /\ dpc' = [dpc EXCEPT ![r] = "loop"]
    /\ UNCHANGED <<tailor, all_owned_sources, toml_on_disk, visited, putative_targets>>
    /\ UNCHANGED fvars

\* line 109: the filesystem query fails and the failure leaves the rule
GlobFails(r) ==
    /\ dpc[r] = "start"
    /\ ~TailorDisabled
    /\ glob_issued' = [glob_issued EXCEPT ![r] = TRUE]
    /\ dpc' = [dpc EXCEPT ![r] = "raised"]
    /\ UNCHANGED <<tailor, all_owned_sources, toml_on_disk, all_toml_files,
                   unowned_toml_files, visited, pts, putative_targets>>
    /\ UNCHANGED fvars

\* lines 113-122: one pass of `for paths in unowned_toml_files`; a set is
\* iterated in an order the program does not control
Iterate(r) ==
    /\ dpc[r] = "loop"
    /\ \E paths \in unowned_toml_files[r] :
          /\ pts' = [pts EXCEPT ![Frame(r)] = @ \o LoopBody(paths)]
          /\ unowned_toml_files' = [unowned_toml_files EXCEPT ![r] = @ \ {paths}]
          /\ visited' = [visited EXCEPT ![r] = Append(@, paths)]
    /\ UNCHANGED <<tailor, all_owned_sources, toml_on_disk, dpc, all_toml_files,
                   putative_targets, glob_issued>>
    /\ UNCHANGED fvars

\* line 123: return PutativeTargets(pts); the frame is gone
Return(r) ==
    /\ dpc[r] = "loop"
    /\ unowned_toml_files[r] = {}
    /\ putative_targets' = [putative_targets EXCEPT ![r] = PutativeTargets(pts[Frame(r)])]
    /\ pts' = [pts EXCEPT ![Frame(r)] = <<>>]
    /\ dpc' = [dpc EXCEPT ![r] = "done"]
    /\ UNCHANGED <<tailor, all_owned_sources, toml_on_disk, all_toml_files,
                   unowned_toml_files, visited, glob_issued>>
    /\ UNCHANGED fvars

----------------------------------------------------------------------------
(* Taplo subsystem (taplo_fmt.py) *)

\* 'https://github.com/tamasfe/taplo/releases/download/'
URL_TEMPLATE_HEAD ==
    <<"h", "t", "t", "p", "s", ":", "/", "/", "g", "i", "t", "h", "u", "b", ".",
      "c", "o", "m", "/", "t", "a", "m", "a", "s", "f", "e", "/", "t", "a", "p",
      "l", "o", "/", "r", "e", "l", "e", "a", "s", "e", "s", "/", "d", "o", "w",
      "n", "l", "o", "a", "d", "/">>
\* '0.8.0'
DEFAULT_VERSION ==
    <<"0", ".", "8", ".", "0">>
\* '/taplo-'
URL_TEMPLATE_MID ==
    <<"/", "t", "a", "p", "l", "o", "-">>
\* '.gz'
URL_TEMPLATE_TAIL ==
    <<".", "g", "z">>
\* 'darwin-aarch64'
DARWIN_AARCH64 ==
    <<"d", "a", "r", "w", "i", "n", "-", "a", "a", "r", "c", "h", "6", "4">>
\* 'darwin-x86_64'
DARWIN_X86_64 ==
    <<"d", "a", "r", "w", "i", "n", "-", "x", "8", "6", "_", "6", "4">>
\* 'linux-aarch64'
LINUX_AARCH64 ==
    <<"l", "i", "n", "u", "x", "-", "a", "a", "r", "c", "h", "6", "4">>
\* 'linux-x86_64'
LINUX_X86_64 ==
    <<"l", "i", "n", "u", "x", "-", "x", "8", "6", "_", "6", "4">>
\* '.taplo.toml'
DOT_TAPLO_TOML ==
    <<".", "t", "a", "p", "l", "o", ".", "t", "o", "m", "l">>
\* 'taplo.toml'
TAPLO_TOML ==
    <<"t", "a", "p", "l", "o", ".", "t", "o", "m", "l">>
\* 'pyproject.toml'
PYPROJECT_TOML ==
    <<"p", "y", "p", "r", "o", "j", "e", "c", "t", ".", "t", "o", "m", "l">>
\* '.toml'
TOML_EXTENSION ==
    <<".", "t", "o", "m", "l">>
\* 'fmt'
FMT ==
    <<"f", "m", "t">>
\* '--option'
ARG_option ==
    <<"-", "-", "o", "p", "t", "i", "o", "n">>
\* 'align_entries=false'
ARG_align_entries ==
    <<"a", "l", "i", "g", "n", "_", "e", "n", "t", "r", "i", "e", "s", "=", "f",
      "a", "l", "s", "e">>

\* Taplo.default_url_platform_mapping
default_url_platform_mapping ==
    [macos_arm64  |-> DARWIN_AARCH64,
     macos_x86_64 |-> DARWIN_X86_64,
     linux_arm64  |-> LINUX_AARCH64,
     linux_x86_64 |-> LINUX_X86_64]

Platforms == DOMAIN default_url_platform_mapping

\* default_url_template.format(version=..., platform=...)
GenerateUrl(plat) ==
    URL_TEMPLATE_HEAD \o DEFAULT_VERSION \o URL_TEMPLATE_MID
        \o default_url_platform_mapping[plat] \o URL_TEMPLATE_TAIL

\* str.removesuffix
RemoveSuffix(str, suffix) ==
    IF /\ suffix # <<>>
       /\ Len(str) >= Len(suffix)
       /\ SubSeq(str, Len(str) - Len(suffix) + 1, Len(str)) = suffix
    THEN SubSeq(str, 1, Len(str) - Len(suffix))
    ELSE str

\* Taplo.generate_exe
GenerateExe(plat) ==
    LET url == GenerateUrl(plat)
    IN  <<".", "/">> \o RemoveSuffix(SubSeq(url, LastSlash(url) + 1, Len(url)), URL_TEMPLATE_TAIL)

\* Taplo.config_request(dirs).check_existence
ConfigCandidates(dirs) ==
    [i \in 1..(Len(dirs) + 1) |->
        OsPathJoin(IF i = 1 THEN <<>> ELSE dirs[i - 1], DOT_TAPLO_TOML)]
    \o
    [i \in 1..(Len(dirs) + 1) |->
        OsPathJoin(IF i = 1 THEN <<>> ELSE dirs[i - 1], TAPLO_TOML)]

\* the element is matched on its last path component only
PyprojectMatch_basename(f) == OsPathBasename(f) = PYPROJECT_TOML

\* `"pyproject.toml" in f`
PyprojectMatch(f) == StrContains(PYPROJECT_TOML, f)

\* Taplo.pyproject_checker: the matching elements of set(filepaths); the list
\* it returns holds them in the set's iteration order
PyprojectChecker(filepaths) == {f \in Range(filepaths) : PyprojectMatch(f)}

\* the lists that hold exactly the elements of S, once each
Listings(S) ==
    {q \in [1..Cardinality(S) -> S] : Range(q) = S}

\* the file paths come before the extra arguments
Argv_files_first(exe, args, files) == <<exe, FMT>> \o files \o args

\* argv = [downloaded_taplo.exe, "fmt", *taplo.args, *request.files]
Argv(exe, args, files) == <<exe, FMT>> \o args \o files

\* the exit code is not looked at
ProcessFails_never(code) == FALSE

\* Get(ProcessResult, Process, ...) raises ProcessExecutionFailure unless the
\* process exits 0
ProcessFails(code) == code # 0

----------------------------------------------------------------------------
(* The fmt request *)

\* 'a/x.toml'
G_a_x ==
    <<"a", "/", "x", ".", "t", "o", "m", "l">>
\* 'a/pyproject.toml'
G_a_pyproject ==
    <<"a", "/", "p", "y", "p", "r", "o", "j", "e", "c", "t", ".", "t", "o", "m", "l">>
\* 'pyproject.toml.bak'
G_pyproject_bak ==
    <<"p", "y", "p", "r", "o", "j", "e", "c", "t", ".", "t", "o", "m", "l", ".",
      "b", "a", "k">>
\* 'b/z.toml'
G_b_z ==
    <<"b", "/", "z", ".", "t", "o", "m", "l">>

FmtFileList == <<PYPROJECT_TOML, G_a_x, G_pyproject_bak, G_a_pyproject, G_b_z>>

\* the paths a fmt request may name
FmtFiles == {FmtFileList[i] : i \in 1..Min(NumFmtFiles, Len(FmtFileList))}

\* the lists of files a PartitionRequest may carry
FmtRequests == UNION {[1..n -> FmtFiles] : n \in 0..MaxBatch}

\* the [taplo].args values tried
ArgsChoices == {<<>>, <<ARG_option, ARG_align_entries>>}

\* TomlSourceField.expected_file_extensions
IsTomlSource(f) ==
    /\ Len(f) >= Len(TOML_EXTENSION)
    /\ SubSeq(f, Len(f) - Len(TOML_EXTENSION) + 1, Len(f)) = TOML_EXTENSION

\* the files of the batches TaploFmtRequest's single partition may yield: the
\* sources of toml targets, as a snapshot lists them (sorted, distinct)
TaploBatches ==
    {SortedStrs(S) : S \in {T \in SUBSET {f \in FmtFiles : IsTomlSource(f)} :
                                T # {} /\ Cardinality(T) <= MaxBatch}}

\* Snapshot.dirs of a snapshot holding `files`: every directory above a file
RECURSIVE Ancestors(_)
Ancestors(f) ==
    LET d == OsPathDirname(f)
    IN  IF d = <<>> \/ d = f THEN {} ELSE {d} \cup Ancestors(d)

SnapshotDirs(files) == SortedStrs(UNION {Ancestors(files[i]) : i \in 1..Len(files)})

NoProcess == [argv |-> <<>>, input_digest |-> {}, output_files |-> <<>>]

NoResult == [input |-> {}, output |-> {}, did_change |-> FALSE, tool_name |-> "none"]

FInit ==
    /\ taplo_skip \in BOOLEAN
    /\ taplo_args \in ArgsChoices
    /\ config_discovery \in BOOLEAN
    /\ platform \in Platforms
    /\ fpc = "idle"
    /\ request_files = <<>>
    /\ partitions = <<>>
    /\ rule_name = "none"
    /\ batch_files = <<>>
    /\ downloaded_exe = <<>>
    /\ tool_digests = <<{}, {}>>
    /\ process = NoProcess
    /\ process_ran = FALSE
    /\ exit_code = 0
    /\ rewritten = {}
    /\ fmt_result = NoResult
    /\ error = "none"

\* no fmt request is made
FIdle ==
    /\ FInit
    /\ ~taplo_skip
    /\ taplo_args = <<>>
    /\ config_discovery
    /\ platform = "linux_x86_64"

\* no tailor request is made
DIdle ==
    /\ DInit
    /\ tailor
    /\ all_owned_sources = {}
    /\ toml_on_disk = [r \in Reqs |-> {}]

\* partition_pyprojects, lines 153-160
PartitionPyprojects ==
    /\ fpc = "idle"
    /\ \E files \in FmtRequests :
          /\ request_files' = files
          /\ IF taplo_skip
             THEN partitions' = <<>>
             ELSE \E listing \in Listings(PyprojectChecker(files)) :
                     partitions' = <<SortedStrSeq(listing)>>
    /\ fpc' = "partitioned"
    /\ UNCHANGED <<taplo_skip, taplo_args, config_discovery, platform, rule_name,
                   batch_files, downloaded_exe, tool_digests, process, process_ran,
                   exit_code, rewritten, fmt_result, error>>
    /\ UNCHANGED dvars

\* pyproject_toml_fmt is handed a batch: the elements of a partition that has any
BatchPyproject ==
    /\ fpc = "partitioned"
    /\ \E i \in 1..Len(partitions) :
          /\ partitions[i] # <<>>
          /\ batch_files' = partitions[i]
    /\ rule_name' = "pyproject_toml_fmt"
    /\ fpc' = "batch"
    /\ UNCHANGED <<taplo_skip, taplo_args, config_discovery, platform, request_files,
                   partitions, downloaded_exe, tool_digests, process, process_ran,
                   exit_code, rewritten, fmt_result, error>>
    /\ UNCHANGED dvars

\* taplo_fmt is handed a batch of TaploFmtRequest, unless the tool is skipped
BatchTaplo ==
    /\ fpc = "idle"
    /\ ~taplo_skip
    /\ batch_files' \in TaploBatches
    /\ rule_name' = "taplo_fmt"
    /\ fpc' = "batch"
    /\ UNCHANGED <<taplo_skip, taplo_args, config_discovery, platform, request_files,
                   partitions, downloaded_exe, tool_digests, process, process_ran,
                   exit_code, rewritten, fmt_result, error>>
    /\ UNCHANGED dvars

\* lines 109-119 and 167-177: both Gets of the MultiGet are answered
ToolsFetched ==
    /\ fpc = "batch"
    /\ downloaded_exe' = GenerateExe(platform)
    /\ \E found \in SUBSET Range(ConfigCandidates(SnapshotDirs(batch_files))) :
          /\ config_discovery \/ found = {}
          /\ tool_digests' = <<{GenerateExe(platform)}, found>>
    /\ fpc' = "tools"
    /\ UNCHANGED <<taplo_skip, taplo_args, config_discovery, platform, request_files,
                   partitions, rule_name, batch_files, process, process_ran,
                   exit_code, rewritten, fmt_result, error>>
    /\ UNCHANGED dvars

\* lines 117 and 175: the download fails and the failure leaves the rule
DownloadFails ==
    /\ fpc = "batch"
    /\ error' = "download"
    /\ fpc' = "raised"
    /\ UNCHANGED <<taplo_skip, taplo_args, config_discovery, platform, request_files,
                   partitions, rule_name, batch_files, downloaded_exe, tool_digests,
                   process, process_ran, exit_code, rewritten, fmt_result>>
    /\ UNCHANGED dvars

\* lines 117 and 175: the config-file lookup fails and the failure leaves the rule
ConfigLookupFails ==
    /\ fpc = "batch"
    /\ error' = "config"
    /\ fpc' = "raised"
    /\ UNCHANGED <<taplo_skip, taplo_args, config_discovery, platform, request_files,
                   partitions, rule_name, batch_files, downloaded_exe, tool_digests,
                   process, process_ran, exit_code, rewritten, fmt_result>>
    /\ UNCHANGED dvars

\* lines 120-143 and 178-201: the digests are merged and the Process is built
BuildProcess ==
    /\ fpc = "tools"
    /\ process' =
          [argv         |-> Argv(downloaded_exe, taplo_args, batch_files),
           input_digest |-> Range(batch_files) \cup tool_digests[1] \cup tool_digests[2],
           output_files |-> batch_files]
    /\ fpc' = "process"
    /\ UNCHANGED <<taplo_skip, taplo_args, config_discovery, platform, request_files,
                   partitions, rule_name, batch_files, downloaded_exe, tool_digests,
                   process_ran, exit_code, rewritten, fmt_result, error>>
    /\ UNCHANGED dvars

\* lines 145 and 203: the subprocess runs; a non-zero exit leaves the rule as a
\* ProcessExecutionFailure, otherwise its output files are captured
RunProcess ==
    /\ fpc = "process"
    /\ process_ran' = TRUE
    /\ \E code \in {0, 1} :
          /\ exit_code' = code
          /\ IF ProcessFails(code)
             THEN /\ error' = "process"
                  /\ fpc' = "raised"
                  /\ rewritten' = {}
             ELSE /\ error' = error
                  /\ fpc' = "ran"
                  /\ rewritten' \in SUBSET Range(process.output_files)
    /\ UNCHANGED <<taplo_skip, taplo_args, config_discovery, platform, request_files,
                   partitions, rule_name, batch_files, downloaded_exe, tool_digests,
                   process, fmt_result>>
    /\ UNCHANGED dvars

\* lines 146 and 204: FmtResult.create(request, result)
CreateResult ==
    /\ fpc = "ran"
    /\ fmt_result' =
          [input      |-> Range(batch_files),
           output     |-> Range(process.output_files),
           did_change |-> rewritten # {},
           tool_name  |-> "taplo"]
    /\ fpc' = "done"
    /\ UNCHANGED <<taplo_skip, taplo_args, config_discovery, platform, request_files,
                   partitions, rule_name, batch_files, downloaded_exe, tool_digests,
                   process, process_ran, exit_code, rewritten, error>>
    /\ UNCHANGED dvars

----------------------------------------------------------------------------
(* Properties of find_putative_targets *)

\* C \ O for request r
Unclaimed(r) == all_toml_files[r] \ all_owned_sources

\* request r returned with the tailor option on
Tailored(r) == dpc[r] = "done" /\ tailor

\* the positions <<i, k>> of the triggering sources of r's proposals
Sources(r) ==
    UNION {{<<i, k>> : k \in 1..Len(putative_targets[r][i].triggering_sources)} :
              i \in 1..Len(putative_targets[r])}

SourceDir(r, ik) == putative_targets[r][ik[1]].path

SourceName(r, ik) == putative_targets[r][ik[1]].triggering_sources[ik[2]]

\* C1: with the tailor option on, the proposals partition C \ O: every
\* unclaimed file occurs exactly once, as (parent directory, basename), and
\* the proposals' directory/filename pairs are exactly the unclaimed files.
C1_ProposalsPartitionUnclaimed ==
    \A r \in Reqs :
        Tailored(r) =>
            /\ \A f \in Unclaimed(r) :
                  Cardinality({ik \in Sources(r) :
                                  /\ SourceDir(r, ik) = OsPathDirname(f)
                                  /\ SourceName(r, ik) = OsPathBasename(f)}) = 1
            /\ {OsPathJoin(SourceDir(r, ik), SourceName(r, ik)) : ik \in Sources(r)}
                  = Unclaimed(r)
            /\ Cardinality(Sources(r)) = Cardinality(Unclaimed(r))

\* C2: with the tailor option on, there is exactly one proposal per directory
\* that directly contains an unclaimed file, and no two proposals share a path.
C2_OneProposalPerDirectory ==
    \A r \in Reqs :
        Tailored(r) =>
            LET res  == putative_targets[r]
                dirs == {OsPathDirname(f) : f \in Unclaimed(r)}
            IN  /\ Len(res) = Cardinality(dirs)
                /\ {res[i].path : i \in 1..Len(res)} = dirs
                /\ \A i, j \in 1..Len(res) : res[i].path = res[j].path => i = j

\* C3: no proposal names an owned file, a directory none of whose TOML files
\* is unclaimed gets no proposal, and nothing unclaimed means no proposal.
C3_NeverReproposesOwned ==
    \A r \in Reqs :
        Tailored(r) =>
            LET res == putative_targets[r]
            IN  /\ \A ik \in Sources(r) :
                      OsPathJoin(SourceDir(r, ik), SourceName(r, ik)) \notin all_owned_sources
                /\ \A i \in 1..Len(res) :
                      \E f \in Unclaimed(r) : OsPathDirname(f) = res[i].path
                /\ Unclaimed(r) = {} => res = <<>>

\* C5: every proposal's triggering sources are the unclaimed basenames of its
\* directory, strictly ascending, none empty.
C5_TriggeringSourcesSortedBasenames ==
    \A r \in Reqs :
        Tailored(r) =>
            \A i \in 1..Len(putative_targets[r]) :
                LET p  == putative_targets[r][i]
                    ts == p.triggering_sources
                IN  /\ Range(ts) = {OsPathBasename(f) :
                                      f \in {g \in Unclaimed(r) : OsPathDirname(g) = p.path}}
                    /\ \A k \in 1..(Len(ts) - 1) : StrLess(ts[k], ts[k + 1])
                    /\ \A k \in 1..Len(ts) : ts[k] # <<>>

\* C4: with the tailor option off a request returns the empty collection,
\* does not fail, and never issues the *.toml glob.
C4_DisabledReturnsEmptyWithoutGlob ==
    \A r \in Reqs :
        ~tailor =>
            /\ ~glob_issued[r]
            /\ dpc[r] \in {"start", "done"}
            /\ dpc[r] = "done" => putative_targets[r] = <<>>

\* C4 witness: the option is off, unclaimed TOML files are on disk, and the
\* request has returned
C4_Witness ==
    \E r \in Reqs :
        /\ ~tailor
        /\ dpc[r] = "done"
        /\ toml_on_disk[r] \ all_owned_sources # {}

\* C6: two runs over the same owned set, the same candidates and the same
\* option return the same proposals, whatever order each iterated in.
C6_SameInputsSameProposals ==
    \A r1, r2 \in Reqs :
        /\ dpc[r1] = "done"
        /\ dpc[r2] = "done"
        /\ toml_on_disk[r1] = toml_on_disk[r2]
        => putative_targets[r1] = putative_targets[r2]

\* C6 witness: two finished runs over the same inputs that iterated the
\* unclaimed set in different orders
C6_Witness ==
    \E r1, r2 \in Reqs :
        /\ Tailored(r1)
        /\ Tailored(r2)
        /\ toml_on_disk[r1] = toml_on_disk[r2]
        /\ Len(visited[r1]) >= 2
        /\ visited[r1] # visited[r2]

\* the proposals of a request that runs by itself, iterating in sorted order
RECURSIVE AloneFrom(_, _)
AloneFrom(order, acc) ==
    IF order = <<>> THEN acc
    ELSE AloneFrom(Tail(order), acc \o LoopBodyOf(Head(order)))

\* what is returned for each unclaimed set, iterated in sorted order
AloneTable ==
    [U \in SUBSET Files |-> Dedup(SortedTargets(AloneFrom(SortedStrs(U), <<>>)))]
        @@ <<>>

RunAlone(C, O, enabled) ==
    IF ~enabled THEN <<>>
    ELSE AloneTable[C \ O]

----------------------------------------------------------------------------
(* Properties of the fmt rules *)

\* a Process has been built
ProcessBuilt == process # NoProcess

\* C7: in both pathways argv is the executable, "fmt", the extra arguments in
\* order, then the batch's files in order, and the declared output files are
\* the batch's files.
C7_ArgvAndOutputFiles ==
    ProcessBuilt =>
        LET argv == process.argv
            na   == Len(taplo_args)
            nf   == Len(batch_files)
        IN  /\ rule_name \in {"taplo_fmt", "pyproject_toml_fmt"}
            /\ Len(argv) = 2 + na + nf
            /\ argv[1] = downloaded_exe
            /\ argv[1] = GenerateExe(platform)
            /\ argv[2] = FMT
            /\ \A i \in 1..na : argv[2 + i] = taplo_args[i]
            /\ \A i \in 1..nf : argv[2 + na + i] = batch_files[i]
            /\ process.output_files = batch_files

\* C7 witness: pyproject_toml_fmt built a Process from extra arguments and
\* more than one file
C7_Witness ==
    /\ ProcessBuilt
    /\ rule_name = "pyproject_toml_fmt"
    /\ Len(taplo_args) >= 2
    /\ Len(batch_files) >= 2

\* partition_pyprojects has returned
Partitioned == fpc # "idle" /\ rule_name # "taplo_fmt"

\* C8: unless the tool is skipped, partition_pyprojects returns one partition
\* holding exactly the distinct request files that contain "pyproject.toml",
\* in ascending order; when the tool is skipped it returns no partition.
C8_PartitionBySubstring ==
    Partitioned =>
        IF taplo_skip
        THEN partitions = <<>>
        ELSE /\ Len(partitions) = 1
             /\ Range(partitions[1]) =
                   {request_files[i] : i \in
                       {j \in 1..Len(request_files) :
                           \E k \in 1..Len(request_files[j]) :
                               /\ k + Len(PYPROJECT_TOML) - 1 <= Len(request_files[j])
                               /\ \A m \in 1..Len(PYPROJECT_TOML) :
                                     request_files[j][k + m - 1] = PYPROJECT_TOML[m]}}
             /\ \A i \in 1..(Len(partitions[1]) - 1) :
                   StrLess(partitions[1][i], partitions[1][i + 1])

\* C8 witness: the request named a file that merely contains "pyproject.toml"
\* and one that does not, and the partition holds only the former
C8_Witness ==
    /\ Partitioned
    /\ ~taplo_skip
    /\ G_pyproject_bak \in Range(request_files)
    /\ G_a_x \in Range(request_files)
    /\ partitions = <<(<<G_pyproject_bak>>)>>

\* C10: a batch whose subprocess exits non-zero ends as a failure with no
\* FmtResult and no rewritten file; a FmtResult exists only after exit code 0;
\* a failed download or config lookup ends the rule as that failure before
\* any Process is built or run.
C10_BatchAllOrNothing ==
    /\ (process_ran /\ exit_code # 0) =>
          /\ fpc = "raised"
          /\ error = "process"
          /\ fmt_result = NoResult
          /\ rewritten = {}
    /\ fmt_result # NoResult =>
          /\ process_ran
          /\ exit_code = 0
          /\ error = "none"
          /\ fmt_result.output = Range(batch_files)
    /\ error \in {"download", "config"} =>
          /\ fpc = "raised"
          /\ ~ProcessBuilt
          /\ ~process_ran
          /\ fmt_result = NoResult
    /\ fpc = "raised" <=> error # "none"

\* C10 witness: the subprocess was run on a batch of two files and exited
\* non-zero
C10_Witness ==
    /\ process_ran
    /\ exit_code # 0
    /\ Len(batch_files) >= 2
    /\ fpc = "raised"

----------------------------------------------------------------------------
(* Specifications *)

\* the tailor goal: two find_putative_targets requests
Init == DInit /\ FIdle

Next ==
    \E r \in Reqs :
        \/ ReturnDisabled(r)
        \/ GlobAnswered(r)
        \/ GlobFails(r)
        \/ Iterate(r)
        \/ Return(r)

Spec == Init /\ [][Next]_vars

\* the fmt goal: one request through either pathway
InitFmt == DIdle /\ FInit

NextFmt ==
    \/ PartitionPyprojects
    \/ BatchPyproject
    \/ BatchTaplo
    \/ ToolsFetched
    \/ DownloadFails
    \/ ConfigLookupFails
    \/ BuildProcess
    \/ RunProcess
    \/ CreateResult

SpecFmt == InitFmt /\ [][NextFmt]_vars

=============================================================================
